---- MODULE Spec2Model ----
(***************************************************************************)
(* Model of L5_Application/source/power_wifi.cpp: the wireless command     *)
(* protocol of a mesh node (master or slave) and the stepper-motor motion  *)
(* controller of a slave.                                                  *)
(*                                                                         *)
(* Tasks modelled: wifi_receive_task, mid_comm_task (wifi_pkt_decoding and *)
(* wifi_slave_heartbeat), wifi_slave_request and motion_task.              *)
(* wifi_slave_heartbeat_task changes no state (it blocks on a semaphore    *)
(* nobody gives, or spins on a master) and has no action.                  *)
(***************************************************************************)
EXTENDS Integers, Sequences, FiniteSets, TLC

(***************************************************************************)
(* Program constants                                                       *)
(***************************************************************************)
WIFI_CMD_REQPWR == 0
WIFI_CMD_GET_STATUS == 1
WIFI_CMD_GIVE_STATUS == 2
WIFI_CMD_CTL_DIR == 3
WIFI_CMD_TERMINATE == 4
WIFI_CMD_SCAN == 5
WIFI_CMD_MOVE == 6

WIFI_MASTER_ADDR == 100

WIFI_STATUS_IDX_ERR == 1
WIFI_STATUS_IDX_ADCU == 2
WIFI_STATUS_IDX_ADCL == 3
WIFI_STATUS_IDX_MPOS == 4
ADC_AVERAGE_DEPTH == 2000

WIFI_MOVE_IDX_PARAM1 == 1
WIFI_MOVE_IDX_PARAM2 == 2

DIRECTION_PIN == 2
ENABLE_PIN == 1
STEP_PIN == 8

STEPS_FULL_REV == 400
ENERGY_SAMPLES == 10
ADC_SAMPLE_PERIOD == STEPS_FULL_REV \div ENERGY_SAMPLES
STEPS_PER_REV == 200

\* xQueueCreate(10, ...) for both hand-off queues
QUEUE_LENGTH == 10
\* length of commandSequence[]
COMMAND_SEQUENCE_LEN == 10
\* largest reading of the 12-bit converter
ADC_MAX == 4095

CW == TRUE
CCW == FALSE

\* enum commandType
commandType == {"scan", "set_speed", "move", "test_rotate_pos", "test_rotate_neg", "none"}

(***************************************************************************)
(* Bounds of the model                                                     *)
(***************************************************************************)
\* packets the radio delivers in one run of the full system
MaxPkts == 2
\* packets the radio delivers in the run that fills the hand-off queues
MaxQueuePkts == 22
\* packets the radio delivers in the run that mixes all motion packets
MaxOrderPkts == 4
\* number of distinct averaged sample values in the pure check of
\* get_max_energy_pos (values 0..NumLevels-1, scaled)
NumLevels == 2

(***************************************************************************)
(* Fixed-width integer conversions                                         *)
(***************************************************************************)
Pow2(n) == 2 ^ n
\* value of x >= 0 stored in an unsigned integer of w bits (the values of the
\* model stay below 2^31, so that 32 bits hold them unchanged)
ToUnsigned(x, w) == IF w >= 31 THEN x ELSE x % Pow2(w)
\* value of x stored in a signed (two's complement) integer of w bits
ToSigned(x, w) == LET u == x % Pow2(w) IN IF u >= Pow2(w - 1) THEN u - Pow2(w) ELSE u
\* (x >> s) & (2^m - 1)
ShiftMask(x, s, m) == (x \div Pow2(s)) % Pow2(m)
Abs(x) == IF x < 0 THEN -x ELSE x

CMD_UNPACK(p) == ShiftMask(p, 24, 8)
PARAM1_UNPACK(p) == ShiftMask(p, 16, 8)
PARAM2_UNPACK(p) == ShiftMask(p, 8, 8)
PARAM3_UNPACK(p) == ShiftMask(p, 0, 8)

(***************************************************************************)
(* State                                                                   *)
(***************************************************************************)
VARIABLES
    addr,            \* mesh_get_node_address() of this node
    sun,             \* environment: motor position at which the analog input peaks
    rxcount,         \* environment: packets delivered by the radio so far
    position,        \* static char position
    busy,            \* static unsigned char busy
    error,           \* static unsigned char error
    slave_boot_up,   \* static bool slave_boot_up
    comm_queue,      \* FIFO of received packets
    motion_queue,    \* FIFO of Motion Command Words
    pkt,             \* mid_comm_task: the packet it decoded last
    tx,              \* packets handed to wireless_send by the last decode
    dec_ret,         \* return value of the last wifi_pkt_decoding
    dec_log,         \* pr_err messages of the last decode
    recv_log,        \* pr_err messages of wifi_receive_task's last iteration
    req_tx,          \* wifi_slave_request: what its last period did
    gpio2,           \* LPC_GPIO2 output latch: the set of pins that are high
    current_pos, steps_todo, steps_todo2,
    energyArray, energyArray_idx,
    busy_bit, command, command_idx,
    mpc,             \* motion_task: where it is
    rx,              \* motion_task: the word it dequeued last
    adc_sample_flag, adc_sampe_ctr

envVars == <<addr, sun, rxcount>>
commVars == <<position, busy, error, slave_boot_up, pkt, tx, dec_ret, dec_log>>
motorVars == <<gpio2, current_pos, steps_todo, steps_todo2, energyArray,
               energyArray_idx, busy_bit, command, command_idx, mpc, rx,
               adc_sample_flag, adc_sampe_ctr>>
vars == <<envVars, commVars, comm_queue, motion_queue, recv_log, req_tx, motorVars>>

(***************************************************************************)
(* Packets.  data is the start of the payload buffer, data[0] the command. *)
(***************************************************************************)
Packet(src, len, cmd, b1, b2, b3, b4) ==
    [src |-> src, data_len |-> len,
     data |-> (0 :> cmd) @@ (1 :> b1) @@ (2 :> b2) @@ (3 :> b3) @@ (4 :> b4)]

\* mid_comm_task's pkt before the first xQueueReceive succeeds
NoPacket == [src |-> 0, data_len |-> 0,
             data |-> [i \in 0..4 |-> 0], none |-> TRUE]

\* a call wireless_send(dst, mesh_pkt_ack, data, len, 0) and what it returned
SendCall(dst, data, ok) == [dst |-> dst, data |-> data, ok |-> ok]

(***************************************************************************)
(* Analog input.  adc0_get_reading(ADC_PORT) is an external collaborator:  *)
(* the reading depends on the angle between the panel and the source.      *)
(***************************************************************************)
CircDist(a, b) ==
    LET d == Abs(a - b) IN IF d > STEPS_PER_REV - d THEN STEPS_PER_REV - d ELSE d

adc0_get_reading(s, pos) ==
    LET v == ADC_MAX - 45 * CircDist(s, pos) IN IF v < 0 THEN 0 ELSE v

\* the readings of one averaging loop, as runs of equal readings:
\* n readings of value v
AdcWindow(s, pos) == <<[v |-> adc0_get_reading(s, pos), n |-> ADC_AVERAGE_DEPTH]>>

\* for (i < ADC_AVERAGE_DEPTH) adc += reading;  in an accumulator of w bits:
\* n additions of v, each wrapping at 2^w
RECURSIVE AdcAccumulate(_, _, _)
AdcAccumulate(window, acc, w) ==
    IF window = <<>> THEN acc
    ELSE AdcAccumulate(Tail(window),
                       ToUnsigned(acc + Head(window).v * Head(window).n, w), w)

\* wifi_slave_heartbeat: unsigned short adc
HeartbeatAdc(window) == AdcAccumulate(window, 0, 16) \div ADC_AVERAGE_DEPTH
\* motion_task: unsigned int adc
ScanAdc(window) == AdcAccumulate(window, 0, 32) \div ADC_AVERAGE_DEPTH

(***************************************************************************)
(* FreeRTOS queue: xQueueSend with a bounded wait on a queue of            *)
(* QUEUE_LENGTH items.  The wait ends with the item queued (there is room) *)
(* or, on timeout, with the item dropped.                                  *)
(***************************************************************************)
QueueHasRoom(q) == Len(q) < QUEUE_LENGTH
\* (variant: a full queue gives up its oldest item for the new one)
xQueueSend_DropsOldest(q, item) ==
    IF QueueHasRoom(q) THEN Append(q, item) ELSE Append(Tail(q), item)
xQueueSend(q, item) == IF QueueHasRoom(q) THEN Append(q, item) ELSE q

(***************************************************************************)
(* wifi_receive_task: one iteration that got a packet p from the radio     *)
(***************************************************************************)
wifi_receive_task(p) ==
    /\ comm_queue' = xQueueSend(comm_queue, p)
    /\ recv_log' = IF QueueHasRoom(comm_queue) THEN <<>>
                   ELSE <<"failed to send packet to comm queue">>
    /\ rxcount' = rxcount + 1
    /\ UNCHANGED <<addr, sun, commVars, motion_queue, req_tx, motorVars>>

(***************************************************************************)
(* wifi_slave_request: one period of the power-request loop                *)
(***************************************************************************)
\* one retry period of the task: the parity of the period, and what
\* wireless_send did in it ("idle" when it was not called)
RequestPeriod(parity, result) == [period |-> parity, result |-> result]

\* (variant: the acknowledgement is not looked at)
wifi_slave_request_IgnoresAck ==
    /\ IF addr # WIFI_MASTER_ADDR
       THEN \E ok \in BOOLEAN :
               req_tx' = RequestPeriod(1 - req_tx.period,
                                       IF ok THEN "sent" ELSE "failed")
       ELSE req_tx' = RequestPeriod(1 - req_tx.period, "idle")
    /\ UNCHANGED <<envVars, commVars, comm_queue, motion_queue, recv_log, motorVars>>

wifi_slave_request ==
    /\ IF ~slave_boot_up /\ addr # WIFI_MASTER_ADDR
       THEN \E ok \in BOOLEAN :
               req_tx' = RequestPeriod(1 - req_tx.period,
                                       IF ok THEN "sent" ELSE "failed")
       ELSE req_tx' = RequestPeriod(1 - req_tx.period, "idle")
    /\ UNCHANGED <<envVars, commVars, comm_queue, motion_queue, recv_log, motorVars>>

(***************************************************************************)
(* wifi_slave_heartbeat: the status package and its send                   *)
(***************************************************************************)
StatusPackage(err, adc, pos) ==
    (0 :> WIFI_CMD_GIVE_STATUS) @@
    (WIFI_STATUS_IDX_ERR :> err) @@
    (WIFI_STATUS_IDX_ADCU :> ShiftMask(adc, 8, 4)) @@
    (WIFI_STATUS_IDX_ADCL :> ShiftMask(adc, 0, 8)) @@
    (WIFI_STATUS_IDX_MPOS :> ToUnsigned(pos, 8))

\* error = busy
HeartbeatError == busy
\* pkg[i++] = position
HeartbeatPosition == position

wifi_slave_heartbeat(window, ok) ==
    /\ error' = HeartbeatError
    /\ tx' = <<SendCall(WIFI_MASTER_ADDR,
                        StatusPackage(HeartbeatError, HeartbeatAdc(window),
                                      HeartbeatPosition), ok)>>

(***************************************************************************)
(* wifi_pkt_decoding                                                       *)
(***************************************************************************)
\* motion = cmd << 24 | data[PARAM1] << 16 | data[PARAM2] << 8
PackMove(p) ==
    ToUnsigned(p.data[0] * Pow2(24) + p.data[WIFI_MOVE_IDX_PARAM1] * Pow2(16)
               + p.data[WIFI_MOVE_IDX_PARAM2] * Pow2(8), 32)
\* motion = cmd << 24
PackScan(p) == ToUnsigned(p.data[0] * Pow2(24), 32)

\* replies of the master
ReqpwrReply(p, ok) == SendCall(p.src, (0 :> WIFI_CMD_GET_STATUS), ok)
\* the reply of the REQPWR case copied into the GIVE_STATUS case
GiveStatusReply_AsReqpwr(p, ok) == SendCall(p.src, (0 :> WIFI_CMD_GET_STATUS), ok)
GiveStatusReply(p, ok) == SendCall(p.src, (0 :> WIFI_CMD_SCAN), ok)

\* if (!len) of the GIVE_STATUS case
NoStatusReceived(p) == p.data_len = 0

\* a case that touches nothing but the return value
DecodeQuiet(ret, log) ==
    /\ tx' = <<>>
    /\ dec_ret' = ret
    /\ dec_log' = log
    /\ UNCHANGED <<error, motion_queue>>

DecodeReply(call, failmsg) ==
    /\ tx' = <<call>>
    /\ dec_ret' = 0
    /\ dec_log' = IF call.ok THEN <<>> ELSE <<failmsg>>
    /\ UNCHANGED <<error, motion_queue>>

DecodeMotion(word) ==
    /\ motion_queue' = xQueueSend(motion_queue, word)
    /\ tx' = <<>>
    /\ dec_ret' = 0
    /\ dec_log' = IF QueueHasRoom(motion_queue) THEN <<>>
                  ELSE <<"failed to pass MOVE cmd to next layer">>
    /\ UNCHANGED error

wifi_pkt_decoding(p) ==
    LET cmd == p.data[0] IN
    /\ slave_boot_up' = (slave_boot_up \/ cmd = WIFI_CMD_GET_STATUS)
    /\ CASE cmd = WIFI_CMD_REQPWR ->
              IF addr # WIFI_MASTER_ADDR THEN DecodeQuiet(0, <<>>)
              ELSE \E ok \in BOOLEAN :
                      DecodeReply(ReqpwrReply(p, ok), "failed to reply REQPWR")
         [] cmd = WIFI_CMD_GET_STATUS ->
              IF addr = WIFI_MASTER_ADDR THEN DecodeQuiet(0, <<>>)
              ELSE /\ \E ok \in BOOLEAN :
                         wifi_slave_heartbeat(AdcWindow(sun, current_pos), ok)
                   /\ dec_ret' = 0
                   /\ dec_log' = <<>>
                   /\ UNCHANGED motion_queue
         [] cmd = WIFI_CMD_GIVE_STATUS ->
              IF addr # WIFI_MASTER_ADDR THEN DecodeQuiet(0, <<>>)
              ELSE IF NoStatusReceived(p)
                   THEN DecodeQuiet(cmd, <<"no status received!">>)
                   ELSE \E ok \in BOOLEAN :
                           DecodeReply(GiveStatusReply(p, ok), "failed to reply REQPWR")
         [] cmd = WIFI_CMD_CTL_DIR -> DecodeQuiet(0, <<>>)
         [] cmd = WIFI_CMD_TERMINATE -> DecodeQuiet(0, <<>>)
         [] cmd = WIFI_CMD_MOVE -> DecodeMotion(PackMove(p))
         [] cmd = WIFI_CMD_SCAN -> DecodeMotion(PackScan(p))
         [] OTHER -> DecodeQuiet(0, <<"undefined wireless commands">>)

(***************************************************************************)
(* mid_comm_task: one iteration that got a packet from comm_queue          *)
(***************************************************************************)
mid_comm_task ==
    /\ comm_queue # <<>>
    /\ pkt' = Head(comm_queue)
    /\ comm_queue' = Tail(comm_queue)
    /\ wifi_pkt_decoding(Head(comm_queue))
    /\ UNCHANGED <<envVars, position, busy, recv_log, req_tx, motorVars>>

(***************************************************************************)
(* Motion controller.  motion_task is cut at its blocking calls: one       *)
(* action per xQueueReceive and per loop iteration (each ends in a         *)
(* vTaskDelay), so that the other tasks see a SCAN or MOVE in progress.    *)
(***************************************************************************)
\* commandSequence[]: zero-initialised (scan = 0), entries 0 and 1 set to scan
commandSequence == [i \in 0..(COMMAND_SEQUENCE_LEN - 1) |-> "scan"]

\* setDirection
setDirection(pins, direction) ==
    IF direction THEN pins \cup {DIRECTION_PIN} ELSE pins \ {DIRECTION_PIN}
\* enableDrive: DRIVE_ON is false, so the enable pin is cleared
DRIVE_ON == FALSE
enableDrive(pins, state) ==
    IF state THEN pins \cup {ENABLE_PIN} ELSE pins \ {ENABLE_PIN}

\* toggleStep: the step pin after the call
ToggleStepPins(pins) ==
    IF STEP_PIN \in pins THEN pins \ {STEP_PIN} ELSE pins \cup {STEP_PIN}
\* toggleStep: current_pos after the call
\* (variant: the counter-clockwise step without its wrap to STEPS_PER_REV - 1)
ToggleStepPos_NoWrap(pins, pos) ==
    IF STEP_PIN \in pins THEN pos
    ELSE IF DIRECTION_PIN \in pins
         THEN ToUnsigned((pos + 1) % STEPS_PER_REV, 16)
         ELSE ToUnsigned(pos + Pow2(16) - 1, 16)
ToggleStepPos(pins, pos) ==
    IF STEP_PIN \in pins THEN pos
    ELSE IF DIRECTION_PIN \in pins
         THEN ToUnsigned((pos + 1) % STEPS_PER_REV, 16)
         ELSE IF pos > 0 THEN pos - 1 ELSE STEPS_PER_REV - 1

toggleStep ==
    /\ gpio2' = ToggleStepPins(gpio2)
    /\ current_pos' = ToggleStepPos(gpio2, current_pos)

\* get_max_energy_pos: the loop over the first ENERGY_SAMPLES entries
\* (variant: >= lets the last of equal samples win)
RECURSIVE MaxSampleIdx_LastWins(_, _, _)
MaxSampleIdx_LastWins(arr, cur_sample_idx, max_sample_idx) ==
    IF cur_sample_idx < ENERGY_SAMPLES
    THEN MaxSampleIdx_LastWins(arr, cur_sample_idx + 1,
                               IF arr[cur_sample_idx] >= arr[max_sample_idx]
                               THEN cur_sample_idx ELSE max_sample_idx)
    ELSE max_sample_idx
RECURSIVE MaxSampleIdx(_, _, _)
MaxSampleIdx(arr, cur_sample_idx, max_sample_idx) ==
    IF cur_sample_idx < ENERGY_SAMPLES
    THEN MaxSampleIdx(arr, cur_sample_idx + 1,
                      IF arr[cur_sample_idx] > arr[max_sample_idx]
                      THEN cur_sample_idx ELSE max_sample_idx)
    ELSE max_sample_idx

get_max_energy_pos(arr) ==
    ToUnsigned(MaxSampleIdx(arr, 0, 0) * (ADC_SAMPLE_PERIOD \div 2), 8)

\* steps_todo = get_max_energy_pos() - current_pos, stored in an int16_t
SeekDelta(arr, pos) == ToSigned(get_max_energy_pos(arr) - pos, 16)
\* setDirection(steps_todo > 0 ? CW : CCW)
SeekDirection(delta) == IF delta > 0 THEN CW ELSE CCW

\* steps_todo2 = PARAM1_UNPACK(rx), stored in an int8_t
\* (variant: the parameter kept as the unsigned byte)
MoveSteps_Unsigned(word) == PARAM1_UNPACK(word)
MoveSteps(word) == ToSigned(PARAM1_UNPACK(word), 8)
\* steps_todo2 = abs(steps_todo2), stored in an int8_t
MoveStepCount(n) == ToSigned(Abs(n), 8)

\* (variant: the item is copied out of the queue and left in it)
motion_receive_Peek ==
    /\ mpc = "idle"
    /\ motion_queue # <<>>
    /\ rx' = Head(motion_queue)
    /\ mpc' = "dispatch"
    /\ UNCHANGED <<envVars, commVars, comm_queue, motion_queue, recv_log, req_tx,
                   gpio2, current_pos, steps_todo, steps_todo2, energyArray,
                   energyArray_idx, busy_bit, command, command_idx,
                   adc_sample_flag, adc_sampe_ctr>>

\* xQueueReceive(motion_queue, &rx, 1000) returned an item
motion_receive ==
    /\ mpc = "idle"
    /\ motion_queue # <<>>
    /\ rx' = Head(motion_queue)
    /\ motion_queue' = Tail(motion_queue)
    /\ mpc' = "dispatch"
    /\ UNCHANGED <<envVars, commVars, comm_queue, recv_log, req_tx, gpio2,
                   current_pos, steps_todo, steps_todo2, energyArray,
                   energyArray_idx, busy_bit, command, command_idx,
                   adc_sample_flag, adc_sampe_ctr>>

\* (variant: the SCAN case without energyArray_idx = 0)
motion_dispatch_KeepsIdx ==
    /\ mpc = "dispatch"
    /\ CASE CMD_UNPACK(rx) = WIFI_CMD_SCAN ->
              /\ busy_bit' = 1
              /\ adc_sample_flag' = 0
              /\ adc_sampe_ctr' = 0
              /\ steps_todo' = STEPS_FULL_REV
              /\ gpio2' = setDirection(enableDrive(gpio2, DRIVE_ON), CW)
              /\ mpc' = "scan"
              /\ UNCHANGED <<steps_todo2, energyArray_idx>>
         [] CMD_UNPACK(rx) = WIFI_CMD_MOVE ->
              /\ busy_bit' = 1
              /\ steps_todo2' = MoveStepCount(MoveSteps(rx))
              /\ gpio2' = setDirection(gpio2, IF MoveSteps(rx) > 0 THEN CW ELSE CCW)
              /\ mpc' = "move"
              /\ UNCHANGED <<adc_sample_flag, adc_sampe_ctr, steps_todo, energyArray_idx>>
         [] OTHER ->
              /\ mpc' = "chain"
              /\ UNCHANGED <<busy_bit, adc_sample_flag, adc_sampe_ctr, steps_todo,
                             steps_todo2, energyArray_idx, gpio2>>
    /\ UNCHANGED <<envVars, commVars, comm_queue, motion_queue, recv_log, req_tx,
                   current_pos, energyArray, command, command_idx, rx>>

\* switch (CMD_UNPACK(rx)): the code of a case up to its first loop
motion_dispatch ==
    /\ mpc = "dispatch"
    /\ CASE CMD_UNPACK(rx) = WIFI_CMD_SCAN ->
              /\ busy_bit' = 1
              /\ adc_sample_flag' = 0
              /\ adc_sampe_ctr' = 0
              /\ steps_todo' = STEPS_FULL_REV
              /\ energyArray_idx' = 0
              /\ gpio2' = setDirection(enableDrive(gpio2, DRIVE_ON), CW)
              /\ mpc' = "scan"
              /\ UNCHANGED steps_todo2
         [] CMD_UNPACK(rx) = WIFI_CMD_MOVE ->
              /\ busy_bit' = 1
              /\ steps_todo2' = MoveStepCount(MoveSteps(rx))
              /\ gpio2' = setDirection(gpio2, IF MoveSteps(rx) > 0 THEN CW ELSE CCW)
              /\ mpc' = "move"
              /\ UNCHANGED <<adc_sample_flag, adc_sampe_ctr, steps_todo, energyArray_idx>>
         [] OTHER ->
              /\ mpc' = "chain"
              /\ UNCHANGED <<busy_bit, adc_sample_flag, adc_sampe_ctr, steps_todo,
                             steps_todo2, energyArray_idx, gpio2>>
    /\ UNCHANGED <<envVars, commVars, comm_queue, motion_queue, recv_log, req_tx,
                   current_pos, energyArray, command, command_idx, rx>>

\* one iteration of the revolution loop of SCAN
scan_step ==
    /\ mpc = "scan"
    /\ steps_todo > 0
    /\ IF adc_sample_flag % ADC_SAMPLE_PERIOD = 0
       THEN /\ energyArray' = [energyArray EXCEPT
                                  ![energyArray_idx] = ScanAdc(AdcWindow(sun, current_pos))]
            /\ energyArray_idx' = ToUnsigned(energyArray_idx + 1, 8)
            /\ adc_sampe_ctr' = adc_sampe_ctr + 1
       ELSE UNCHANGED <<energyArray, energyArray_idx, adc_sampe_ctr>>
    /\ adc_sample_flag' = adc_sample_flag + 1
    /\ toggleStep
    /\ steps_todo' = steps_todo - 1
    /\ UNCHANGED <<envVars, commVars, comm_queue, motion_queue, recv_log, req_tx,
                   steps_todo2, busy_bit, command, command_idx, mpc, rx>>

\* (variant of scan_end: busy_bit = 0 placed before the seek loop)
scan_end_ClearsBusy ==
    /\ mpc = "scan"
    /\ steps_todo <= 0
    /\ steps_todo' = SeekDelta(energyArray, current_pos)
    /\ gpio2' = setDirection(gpio2, SeekDirection(SeekDelta(energyArray, current_pos)))
    /\ mpc' = "seek"
    /\ busy_bit' = 0
    /\ UNCHANGED <<envVars, commVars, comm_queue, motion_queue, recv_log, req_tx,
                   current_pos, steps_todo2, energyArray, energyArray_idx,
                   command, command_idx, rx, adc_sample_flag, adc_sampe_ctr>>

\* after the revolution: the delta to the best position and its direction
scan_end ==
    /\ mpc = "scan"
    /\ steps_todo <= 0
    /\ steps_todo' = SeekDelta(energyArray, current_pos)
    /\ gpio2' = setDirection(gpio2, SeekDirection(SeekDelta(energyArray, current_pos)))
    /\ mpc' = "seek"
    /\ UNCHANGED <<envVars, commVars, comm_queue, motion_queue, recv_log, req_tx,
                   current_pos, steps_todo2, energyArray, energyArray_idx, busy_bit,
                   command, command_idx, rx, adc_sample_flag, adc_sampe_ctr>>

\* one iteration of the seek loop of SCAN
seek_step ==
    /\ mpc = "seek"
    /\ steps_todo > 0
    /\ toggleStep
    /\ steps_todo' = steps_todo - 1
    /\ UNCHANGED <<envVars, commVars, comm_queue, motion_queue, recv_log, req_tx,
                   steps_todo2, energyArray, energyArray_idx, busy_bit, command,
                   command_idx, mpc, rx, adc_sample_flag, adc_sampe_ctr>>

\* (variant: the loop of MOVE without steps_todo2--)
move_step_NoCountdown ==
    /\ mpc = "move"
    /\ steps_todo2 > 0
    /\ toggleStep
    /\ UNCHANGED <<envVars, commVars, comm_queue, motion_queue, recv_log, req_tx,
                   steps_todo, steps_todo2, energyArray, energyArray_idx, busy_bit,
                   command, command_idx, mpc, rx, adc_sample_flag, adc_sampe_ctr>>

\* one iteration of the loop of MOVE
move_step ==
    /\ mpc = "move"
    /\ steps_todo2 > 0
    /\ toggleStep
    /\ steps_todo2' = ToSigned(steps_todo2 - 1, 8)
    /\ UNCHANGED <<envVars, commVars, comm_queue, motion_queue, recv_log, req_tx,
                   steps_todo, energyArray, energyArray_idx, busy_bit, command,
                   command_idx, mpc, rx, adc_sample_flag, adc_sampe_ctr>>

\* busy_bit = 0; break;  at the end of SCAN and of MOVE
motion_done ==
    /\ \/ mpc = "seek" /\ steps_todo <= 0
       \/ mpc = "move" /\ steps_todo2 <= 0
    /\ busy_bit' = 0
    /\ mpc' = "chain"
    /\ UNCHANGED <<envVars, commVars, comm_queue, motion_queue, recv_log, req_tx,
                   gpio2, current_pos, steps_todo, steps_todo2, energyArray,
                   energyArray_idx, command, command_idx, rx, adc_sample_flag,
                   adc_sampe_ctr>>

\* if (busy_bit == 0) command = commandSequence[command_idx++];
\* an index past the array reads whatever lies behind it
motion_chain ==
    /\ mpc = "chain"
    /\ IF busy_bit = 0
       THEN /\ IF command_idx < COMMAND_SEQUENCE_LEN
               THEN command' = commandSequence[command_idx]
               ELSE command' \in commandType
            /\ command_idx' = ToUnsigned(command_idx + 1, 8)
       ELSE UNCHANGED <<command, command_idx>>
    /\ mpc' = "idle"
    /\ UNCHANGED <<envVars, commVars, comm_queue, motion_queue, recv_log, req_tx,
                   gpio2, current_pos, steps_todo, steps_todo2, energyArray,
                   energyArray_idx, busy_bit, rx, adc_sample_flag, adc_sampe_ctr>>

motion_task ==
    \/ motion_receive
    \/ motion_dispatch
    \/ scan_step
    \/ scan_end
    \/ seek_step
    \/ move_step
    \/ motion_done
    \/ motion_chain

(***************************************************************************)
(* The node after power_wifi_init                                          *)
(***************************************************************************)
\* addresses of the mesh: the master and two slaves
NodeAddrs == {WIFI_MASTER_ADDR, 101, 102}
\* positions of the analog source
SunPositions == {30}

InitNode ==
    /\ position = 0
    /\ busy = 0
    /\ error = 0
    /\ slave_boot_up = FALSE
    /\ comm_queue = <<>>
    /\ motion_queue = <<>>
    /\ pkt = NoPacket
    /\ tx = <<>>
    /\ dec_ret = 0
    /\ dec_log = <<>>
    /\ recv_log = <<>>
    /\ req_tx = RequestPeriod(0, "idle")
    /\ gpio2 = {}
    /\ current_pos = 0
    /\ steps_todo = 0
    /\ steps_todo2 = 0
    /\ energyArray = [i \in 0..(2 * ENERGY_SAMPLES - 1) |-> 0]
    /\ energyArray_idx = 0
    /\ busy_bit = 0
    /\ command = "none"
    /\ command_idx = 0
    /\ mpc = "idle"
    /\ rx = 0
    /\ adc_sample_flag = 0
    /\ adc_sampe_ctr = 0
    /\ rxcount = 0

(***************************************************************************)
(* The full node.  The radio delivers at most MaxPkts packets, taken from  *)
(* the commands a master sends to a slave.                                 *)
(***************************************************************************)
\* signed step counts of the MOVE packets of the full node, as bytes
MoveParams == {5, 253}

\* the node the packets of the full node come from: the master for a slave,
\* a slave for the master
Peer(a) == IF a = WIFI_MASTER_ADDR THEN 101 ELSE WIFI_MASTER_ADDR

RadioPackets(src) ==
    {Packet(src, 1, WIFI_CMD_GET_STATUS, 0, 0, 0, 0),
     Packet(src, 1, WIFI_CMD_SCAN, 0, 0, 0, 0)}
    \cup {Packet(src, 4, WIFI_CMD_MOVE, n, 0, 0, 0) : n \in MoveParams}

Init ==
    /\ InitNode
    /\ addr \in {WIFI_MASTER_ADDR, 101}
    /\ sun \in SunPositions

Receive ==
    /\ rxcount < MaxPkts
    /\ \E p \in RadioPackets(Peer(addr)) : wifi_receive_task(p)

Next ==
    \/ Receive
    \/ mid_comm_task
    \/ wifi_slave_request
    \/ motion_task

Spec == Init /\ [][Next]_vars

(***************************************************************************)
(* The codec alone: one received packet of any command, length, source and *)
(* parameters waits in comm_queue; it is decoded and, if it produced a     *)
(* Motion Command Word, the motion task dequeues the word.                 *)
(***************************************************************************)
PacketLens == {0, 1, 2, 5}
Param2s == {0, 1, 255}
Param3s == {0, 9}

CodecPackets ==
    {Packet(s, l, c, 0, 0, 0, 0) : s \in NodeAddrs, l \in PacketLens, c \in 0..7}
    \cup {Packet(s, 4, WIFI_CMD_MOVE, p1, p2, p3, 0) :
             s \in {WIFI_MASTER_ADDR, 101}, p1 \in 0..255, p2 \in Param2s, p3 \in Param3s}

InitCodec ==
    /\ InitNode
    /\ addr \in NodeAddrs
    /\ sun \in SunPositions

ReceiveCodec ==
    /\ rxcount < 1
    /\ \E p \in CodecPackets : p.src # addr /\ wifi_receive_task(p)

NextCodec ==
    \/ ReceiveCodec
    \/ mid_comm_task
    \/ motion_receive

SpecCodec == InitCodec /\ [][NextCodec]_vars

(***************************************************************************)
(* get_max_energy_pos alone: the motion task stands at the end of the      *)
(* revolution of a SCAN, with any ENERGY_SAMPLES samples in the buffer.    *)
(***************************************************************************)
\* averaged samples: NumLevels values, LevelStep apart
LevelStep == 1000
SampleLevels == {k * LevelStep : k \in 0..(NumLevels - 1)}
EndPositions == {0, 60, 199}

InitEnergy ==
    /\ position = 0
    /\ busy = 0
    /\ error = 0
    /\ slave_boot_up = FALSE
    /\ comm_queue = <<>>
    /\ motion_queue = <<>>
    /\ pkt = Packet(WIFI_MASTER_ADDR, 1, WIFI_CMD_SCAN, 0, 0, 0, 0)
    /\ tx = <<>>
    /\ dec_ret = 0
    /\ dec_log = <<>>
    /\ recv_log = <<>>
    /\ req_tx = RequestPeriod(0, "idle")
    /\ gpio2 = {DIRECTION_PIN}
    /\ current_pos \in EndPositions
    /\ steps_todo = 0
    /\ steps_todo2 = 0
    /\ \E samples \in [0..(ENERGY_SAMPLES - 1) -> SampleLevels] :
          energyArray = [i \in 0..(2 * ENERGY_SAMPLES - 1) |->
                            IF i < ENERGY_SAMPLES THEN samples[i] ELSE 0]
    /\ energyArray_idx = ENERGY_SAMPLES
    /\ busy_bit = 1
    /\ command = "none"
    /\ command_idx = 0
    /\ mpc = "scan"
    /\ rx = PackScan(pkt)
    /\ adc_sample_flag = STEPS_FULL_REV
    /\ adc_sampe_ctr = ENERGY_SAMPLES
    /\ rxcount = 1
    /\ addr = 101
    /\ sun \in SunPositions

NextEnergy == scan_end

SpecEnergy == InitEnergy /\ [][NextEnergy]_vars

(***************************************************************************)
(* The hand-off queues under load: a slave receives a burst of MOVE        *)
(* packets of one step each, the k-th of which carries k as param2, so     *)
(* that all packets and all Motion Command Words differ.  The consumers    *)
(* run at any pace, also not at all.                                       *)
(***************************************************************************)
QueuePacket(k) == Packet(WIFI_MASTER_ADDR, 4, WIFI_CMD_MOVE, 1, k, 0, 0)

InitQueue ==
    /\ InitNode
    /\ addr = 101
    /\ sun \in SunPositions

ReceiveQueue ==
    /\ rxcount < MaxQueuePkts
    /\ wifi_receive_task(QueuePacket(rxcount + 1))

NextQueue ==
    \/ ReceiveQueue
    \/ mid_comm_task
    \/ motion_receive
    \/ motion_dispatch
    \/ move_step
    \/ motion_done
    \/ motion_chain

SpecQueue == InitQueue /\ [][NextQueue]_vars

(***************************************************************************)
(* Motion packets of every kind in any order: a slave receives SCAN, MOVE, *)
(* TERMINATE and CONTROL_DIRECTION packets while its motion controller     *)
(* works.  The k-th packet, when it is a MOVE, carries k as param2.        *)
(***************************************************************************)
OrderPackets(k) ==
    {QueuePacket(k),
     Packet(WIFI_MASTER_ADDR, 1, WIFI_CMD_SCAN, 0, 0, 0, 0),
     Packet(WIFI_MASTER_ADDR, 1, WIFI_CMD_TERMINATE, 0, 0, 0, 0),
     Packet(WIFI_MASTER_ADDR, 2, WIFI_CMD_CTL_DIR, 1, 0, 0, 0)}

ReceiveOrder ==
    /\ rxcount < MaxOrderPkts
    /\ \E p \in OrderPackets(rxcount + 1) : wifi_receive_task(p)

NextOrder == ReceiveOrder \/ mid_comm_task \/ motion_task

SpecOrder == InitQueue /\ [][NextOrder]_vars

(***************************************************************************)
(* One MOVE of every step count: a slave fresh from power_wifi_init        *)
(* receives one MOVE packet whose first parameter is any byte, and the     *)
(* motion controller executes it.                                          *)
(***************************************************************************)
ByteValues == 0..(Pow2(8) - 1)
MovePackets == {Packet(WIFI_MASTER_ADDR, 4, WIFI_CMD_MOVE, b, 0, 0, 0) : b \in ByteValues}

ReceiveMove ==
    /\ rxcount = 0
    /\ \E p \in MovePackets : wifi_receive_task(p)

NextMove ==
    \/ ReceiveMove
    \/ mid_comm_task
    \/ motion_receive
    \/ motion_dispatch
    \/ move_step
    \/ motion_done
    \/ motion_chain

SpecMove == InitQueue /\ [][NextMove]_vars

(***************************************************************************)
(* Every command from several start positions, with a fairly scheduled     *)
(* motion task: a slave receives a first packet that brings the panel to a *)
(* start position and step-pin level, and then a SCAN or a MOVE of any     *)
(* step count.  motion_task has the priority of the other tasks and every  *)
(* task blocks in each iteration, so the scheduler runs it whenever it is  *)
(* ready.                                                                  *)
(***************************************************************************)
ScanPacket == Packet(WIFI_MASTER_ADDR, 1, WIFI_CMD_SCAN, 0, 0, 0, 0)
\* MOVE by 0, 1, 2, -2 and -1: start positions 0, 1 and 199, step pin low and high
StartPackets ==
    {Packet(WIFI_MASTER_ADDR, 4, WIFI_CMD_MOVE, b, 0, 0, 0) :
        b \in {0, 1, 2, Pow2(8) - 2, Pow2(8) - 1}} \cup {ScanPacket}

ReceiveStart ==
    /\ rxcount = 0
    /\ \E p \in StartPackets : wifi_receive_task(p)

ReceiveCommand ==
    /\ rxcount = 1
    /\ \E p \in MovePackets \cup {ScanPacket} : wifi_receive_task(p)

NextLive == ReceiveStart \/ ReceiveCommand \/ mid_comm_task \/ motion_task

SpecLive == InitQueue /\ [][NextLive]_vars /\ WF_vars(motion_task)

(***************************************************************************)
(* Properties                                                              *)
(***************************************************************************)
\* mid_comm_task has decoded a packet; pkt, tx and dec_ret are of that decode
Decoded == pkt # NoPacket
IsMaster == addr = WIFI_MASTER_ADDR
\* this step is the decode of a GET_STATUS packet on a slave
SlaveDecodesGetStatus ==
    /\ ~IsMaster
    /\ comm_queue # <<>>
    /\ Head(comm_queue).data[0] = WIFI_CMD_GET_STATUS
    /\ comm_queue' = Tail(comm_queue)
    /\ pkt' = Head(comm_queue)
\* the GIVE_STATUS package of a status report
StatusOf(sends) == sends[1].data
\* the ADC reading a receiver decodes from a status package
DecodeAdc(pkg) == pkg[WIFI_STATUS_IDX_ADCU] * 256 + pkg[WIFI_STATUS_IDX_ADCL]
\* sum of the readings of a window, without any wrap
RECURSIVE WindowSum(_)
WindowSum(window) ==
    IF window = <<>> THEN 0
    ELSE Head(window).v * Head(window).n + WindowSum(Tail(window))
\* a byte read as a signed 8-bit value
SignedByte(b) == IF b >= 128 THEN b - 256 ELSE b
\* smallest index of the largest of the ENERGY_SAMPLES samples
FirstArgMax(arr) ==
    CHOOSE i \in 0..(ENERGY_SAMPLES - 1) :
        /\ \A j \in 0..(ENERGY_SAMPLES - 1) : arr[j] <= arr[i]
        /\ \A j \in 0..(i - 1) : arr[j] < arr[i]
\* absolute step offset of the best-energy sample
BestEnergyPosition(arr) == (ADC_SAMPLE_PERIOD \div 2) * FirstArgMax(arr)

\* C1: when a slave decodes GET_STATUS, bit 0 of the error byte of the
\* GIVE_STATUS packet it sends equals the motion controller's busy flag at
\* that moment (1 during a SCAN or MOVE, 0 when idle).
C1_BusyBitIsControllerBusy ==
    [][SlaveDecodesGetStatus =>
          /\ Len(tx') = 1
          /\ StatusOf(tx')[WIFI_STATUS_IDX_ERR] % 2 = busy_bit]_vars

\* C2: when a slave decodes GET_STATUS, the motor-position byte of the
\* GIVE_STATUS packet equals the motion controller's current position.
C2_PositionByteIsCurrentPos ==
    [][SlaveDecodesGetStatus =>
          /\ Len(tx') = 1
          /\ StatusOf(tx')[WIFI_STATUS_IDX_MPOS] = current_pos]_vars

C4_ScanEndsAtBestPosition ==
    (~IsMaster /\ mpc = "chain" /\ CMD_UNPACK(rx) = WIFI_CMD_SCAN) =>
        /\ busy_bit = 0
        /\ current_pos = BestEnergyPosition(energyArray)

\* C5: the decoder returns non-zero whenever a reply of the master (GET_STATUS
\* in answer to REQUEST_POWER, SCAN in answer to GIVE_STATUS) could not be
\* transmitted.
C5_SendFailureIsReported ==
    (/\ Decoded
     /\ IsMaster
     /\ pkt.data[0] \in {WIFI_CMD_REQPWR, WIFI_CMD_GIVE_STATUS}
     /\ \E i \in 1..Len(tx) : ~tx[i].ok)
    => dec_ret # 0

\* C6: on a master, a GIVE_STATUS packet without status payload (data length
\* 0, or 1 for the command byte alone) returns non-zero, sends nothing and
\* enqueues no Motion Command Word.
C6_NoStatusIsAnError ==
    (/\ Decoded
     /\ IsMaster
     /\ pkt.data[0] = WIFI_CMD_GIVE_STATUS
     /\ pkt.data_len <= 1)
    => (dec_ret # 0 /\ tx = <<>> /\ motion_queue = <<>>)

\* C7: a master that decodes GIVE_STATUS with a non-empty payload from source
\* s calls wireless_send exactly once, with the one-byte packet SCAN and
\* destination s; a slave that decodes GIVE_STATUS sends nothing.
C7_GiveStatusAnsweredByScan ==
    (Decoded /\ pkt.data[0] = WIFI_CMD_GIVE_STATUS) =>
        /\ (IsMaster /\ pkt.data_len >= 2) =>
              /\ Len(tx) = 1
              /\ tx[1].dst = pkt.src
              /\ tx[1].data = (0 :> WIFI_CMD_SCAN)
        /\ ~IsMaster => tx = <<>>

C7_Witness ==
    /\ Decoded
    /\ IsMaster
    /\ pkt.data[0] = WIFI_CMD_GIVE_STATUS
    /\ pkt.data_len = 5
    /\ pkt.src = 102
    /\ Len(tx) = 1
    /\ tx[1].dst = 102

\* C8: the Motion Command Word of a MOVE packet unpacks to command MOVE, the
\* packet's param2, param3 = 0 and, read as a signed 8-bit value, the
\* packet's signed param1.
C8_MoveRoundTrip ==
    (Decoded /\ pkt.data[0] = WIFI_CMD_MOVE /\ mpc = "dispatch") =>
        /\ CMD_UNPACK(rx) = WIFI_CMD_MOVE
        /\ PARAM2_UNPACK(rx) = pkt.data[WIFI_MOVE_IDX_PARAM2]
        /\ PARAM3_UNPACK(rx) = 0
        /\ MoveSteps(rx) = SignedByte(pkt.data[WIFI_MOVE_IDX_PARAM1])

C8_Witness ==
    /\ Decoded
    /\ pkt.data[0] = WIFI_CMD_MOVE
    /\ pkt.data[WIFI_MOVE_IDX_PARAM1] = 251
    /\ pkt.data[WIFI_MOVE_IDX_PARAM2] = 255
    /\ pkt.data[3] = 9
    /\ mpc = "dispatch"
    /\ MoveSteps(rx) = -5

\* C9: get_max_energy_pos returns (ADC_SAMPLE_PERIOD / 2) * i for the
\* smallest index i that holds the largest of the ENERGY_SAMPLES samples, and
\* the end of the revolution takes its delta from that value.
C9_MaxEnergyPosIsFirstArgMax ==
    /\ get_max_energy_pos(energyArray) = BestEnergyPosition(energyArray)
    /\ mpc = "seek" => steps_todo = BestEnergyPosition(energyArray) - current_pos

C9_Witness ==
    /\ mpc = "seek"
    /\ energyArray[3] = LevelStep
    /\ energyArray[7] = LevelStep
    /\ \A j \in 0..(ENERGY_SAMPLES - 1) : j \notin {3, 7} => energyArray[j] = 0
    /\ current_pos = 199
    /\ steps_todo = 3 * (ADC_SAMPLE_PERIOD \div 2) - 199

\* C10: the motor position is always in 0..STEPS_PER_REV-1; a rising edge of
\* the step pin changes it by +1 modulo STEPS_PER_REV when the direction pin
\* is set (clockwise) and by -1 modulo STEPS_PER_REV when it is clear, and
\* nothing else changes it.
PositionStep ==
    IF STEP_PIN \notin gpio2 /\ STEP_PIN \in gpio2'
    THEN current_pos' = IF DIRECTION_PIN \in gpio2
                        THEN (current_pos + 1) % STEPS_PER_REV
                        ELSE (current_pos + STEPS_PER_REV - 1) % STEPS_PER_REV
    ELSE current_pos' = current_pos

C10_PositionWraps ==
    /\ [](current_pos \in 0..(STEPS_PER_REV - 1))
    /\ [][PositionStep]_vars

\* the backward wrap: a MOVE of a negative count from position 0
C10_Witness ==
    /\ mpc = "move"
    /\ DIRECTION_PIN \notin gpio2
    /\ STEP_PIN \in gpio2
    /\ MoveSteps(rx) = -3
    /\ steps_todo2 = 2
    /\ current_pos = STEPS_PER_REV - 1

\* the step pin toggles in this step: a step pulse is issued
StepPulse == (STEP_PIN \in gpio2) # (STEP_PIN \in gpio2')
\* motion_task holds a dequeued SCAN or MOVE word and has not finished it
CommandDequeued ==
    /\ mpc \in {"dispatch", "scan", "seek", "move"}
    /\ CMD_UNPACK(rx) \in {WIFI_CMD_SCAN, WIFI_CMD_MOVE}
\* motion_task is inside the case of a SCAN or MOVE
CommandRunning == mpc \in {"scan", "seek", "move"}

\* C11 as stated: the busy flag is true in every state between the dequeue of
\* a SCAN or MOVE word and its completion, and false when the controller
\* waits on the motion queue.
C11_BusyFromDequeue ==
    /\ CommandDequeued => busy_bit = 1
    /\ mpc = "idle" => busy_bit = 0

\* C11 amended: the busy flag is true in every state from the first statement
\* of the SCAN or MOVE case to the completion of the command (seek phase
\* included) and false in every other state (waiting on the queue, and
\* between the dequeue and the case); no step pulse is issued while it is
\* false.
C11_BusyWhileRunning ==
    /\ [](CommandRunning => busy_bit = 1)
    /\ [](~CommandRunning => busy_bit = 0)
    /\ [][StepPulse => busy_bit = 1 /\ busy_bit' = 1]_vars

\* the seek phase of a SCAN, stepping
C11_Witness ==
    /\ mpc = "seek"
    /\ steps_todo > 0
    /\ steps_todo < SeekDelta(energyArray, 0)
    /\ busy_bit = 1

\* this step is an iteration of wifi_receive_task that got a packet
ReceiveStep == rxcount' = rxcount + 1
\* this step is an iteration of mid_comm_task that decodes a MOVE or SCAN
DecodeMotionStep ==
    /\ comm_queue # <<>>
    /\ comm_queue' = Tail(comm_queue)
    /\ pkt' = Head(comm_queue)
    /\ pkt'.data[0] \in {WIFI_CMD_MOVE, WIFI_CMD_SCAN}
QueueFull(q) == Len(q) = QUEUE_LENGTH

\* C12: an enqueue to a hand-off queue that holds QUEUE_LENGTH items fails:
\* the item is dropped and logged, the queue keeps its items in their order,
\* and the producer has finished its iteration (the receive task has taken
\* its packet, the decoder has consumed its packet and returned).
C12_FullQueueDrops ==
    /\ [][(ReceiveStep /\ QueueFull(comm_queue)) =>
             /\ comm_queue' = comm_queue
             /\ recv_log' = <<"failed to send packet to comm queue">>]_vars
    /\ [][(DecodeMotionStep /\ QueueFull(motion_queue)) =>
             /\ motion_queue' = motion_queue
             /\ dec_log' = <<"failed to pass MOVE cmd to next layer">>
             /\ dec_ret' = 0]_vars
    /\ [](Len(comm_queue) <= QUEUE_LENGTH /\ Len(motion_queue) <= QUEUE_LENGTH)

\* both queues have dropped an item, and the receive task has gone on to its
\* next packet after its drop
C12_Witness ==
    /\ rxcount = 2 * QUEUE_LENGTH + 2
    /\ recv_log = <<"failed to send packet to comm queue">>
    /\ dec_log = <<"failed to pass MOVE cmd to next layer">>
    /\ QueueFull(motion_queue)
    /\ QueueFull(comm_queue)
    /\ \A i \in 1..QUEUE_LENGTH : PARAM2_UNPACK(motion_queue[i]) = i
    /\ \A i \in 1..QUEUE_LENGTH : comm_queue[i] = QueuePacket(QUEUE_LENGTH + 1 + i)
    /\ pkt = QueuePacket(QUEUE_LENGTH + 1)

\* this step is one retry period of wifi_slave_request
RequestStep == req_tx'.period # req_tx.period
\* this step is the decode of a GET_STATUS packet
DecodesGetStatus ==
    /\ comm_queue # <<>>
    /\ Head(comm_queue).data[0] = WIFI_CMD_GET_STATUS
    /\ comm_queue' = Tail(comm_queue)
    /\ pkt' = Head(comm_queue)
Requested == req_tx.result \in {"sent", "failed"}

\* C13: on a slave every retry period before a GET_STATUS is decoded makes one
\* send attempt of REQUEST_POWER, and no period after one does; the
\* acknowledged state is set by the decode of GET_STATUS and by nothing else,
\* and is never reset; a master never sends REQUEST_POWER.
C13_RequestUntilAcknowledged ==
    /\ [][RequestStep => (Requested' <=> (~IsMaster /\ ~slave_boot_up))]_vars
    /\ [][slave_boot_up' <=> (slave_boot_up \/ DecodesGetStatus)]_vars
    /\ [](IsMaster => ~Requested)

\* an acknowledged slave has passed a retry period without a send
C13_Witness ==
    /\ ~IsMaster
    /\ slave_boot_up
    /\ req_tx = RequestPeriod(1, "idle")

\* this step is an iteration of mid_comm_task that got a packet
DecodeStep ==
    /\ comm_queue # <<>>
    /\ comm_queue' = Tail(comm_queue)
    /\ pkt' = Head(comm_queue)
\* this step puts the word of the decoded packet at the tail of the queue
EnqueueStep ==
    /\ DecodeMotionStep
    /\ \E word \in {PackMove(pkt'), PackScan(pkt')} :
          motion_queue' = Append(motion_queue, word)
\* this step takes the word at the head of the queue for execution
DequeueStep ==
    /\ mpc = "idle"
    /\ motion_queue # <<>>
    /\ rx' = Head(motion_queue)
    /\ motion_queue' = Tail(motion_queue)
    /\ mpc' = "dispatch"
RECURSIVE MoveSeqs(_)
\* the sequence numbers of the MOVE words of a queue, in queue order
MoveSeqs(q) ==
    IF q = <<>> THEN <<>>
    ELSE IF CMD_UNPACK(Head(q)) = WIFI_CMD_MOVE
         THEN <<PARAM2_UNPACK(Head(q))>> \o MoveSeqs(Tail(q))
         ELSE MoveSeqs(Tail(q))
Increasing(s) == \A i, j \in 1..Len(s) : i < j => s[i] < s[j]

\* C14: Motion Command Words are executed one at a time, to completion, in
\* the order of their enqueue, each once: the motion queue changes only by an
\* enqueue at its tail or by the dequeue of its head, which happens only while
\* no command is in progress; no packet that arrives or is decoded (TERMINATE
\* and CONTROL_DIRECTION included) changes anything of the motion controller;
\* a command's loops are left only when their step counters are used up.
C14_OneAtATimeInOrder ==
    /\ [][motion_queue' # motion_queue => (EnqueueStep \/ DequeueStep)]_vars
    /\ [][(rx' # rx \/ (mpc = "idle" /\ mpc' # "idle")) => DequeueStep]_vars
    /\ [][(ReceiveStep \/ DecodeStep) => UNCHANGED motorVars]_vars
    /\ [][(DecodeStep /\ pkt'.data[0] \in {WIFI_CMD_TERMINATE, WIFI_CMD_CTL_DIR})
             => UNCHANGED <<motion_queue, motorVars>>]_vars
    /\ [][(mpc = "scan" /\ mpc' # "scan") =>
             (mpc' = "seek" /\ steps_todo = 0 /\ adc_sample_flag = STEPS_FULL_REV)]_vars
    /\ [][(mpc = "seek" /\ mpc' # "seek") => (mpc' = "chain" /\ steps_todo <= 0)]_vars
    /\ [][(mpc = "move" /\ mpc' # "move") => (mpc' = "chain" /\ steps_todo2 <= 0)]_vars
    /\ [](Increasing(MoveSeqs(<<rx>> \o motion_queue)))

\* a SCAN is in progress, a MOVE word waits in the queue, and a TERMINATE
\* packet has arrived and is about to be decoded
C14_Witness ==
    /\ mpc = "scan"
    /\ steps_todo \in 1..(STEPS_FULL_REV - 1)
    /\ motion_queue = <<PackMove(QueuePacket(2))>>
    /\ comm_queue # <<>>
    /\ Head(comm_queue).data[0] = WIFI_CMD_TERMINATE

\* the first command of the node was a MOVE and its case has been left
FirstMoveDone ==
    /\ mpc = "chain"
    /\ command_idx = 0
    /\ CMD_UNPACK(rx) = WIFI_CMD_MOVE
\* current_pos after k toggles from the state after power_wifi_init (step pin
\* low, position 0): every other toggle is a rising edge, which steps
PositionAfterToggles(k, clockwise) ==
    LET edges == (k + 1) \div 2
    IN  IF clockwise THEN edges % STEPS_PER_REV
        ELSE (STEPS_PER_REV - (edges % STEPS_PER_REV)) % STEPS_PER_REV

\* C15: a MOVE of signed 8-bit step count n issues exactly |n| toggles of the
\* step pin, clockwise for n > 0 and counter-clockwise for n < 0, and then
\* clears the busy flag.  Stated for the first command after initialisation,
\* where |n| toggles leave the step pin high iff |n| is odd and the position
\* (|n| + 1) / 2 steps from 0.
C15_MoveIssuesAbsNToggles ==
    FirstMoveDone =>
        LET n == SignedByte(PARAM1_UNPACK(rx))
        IN  /\ busy_bit = 0
            /\ (STEP_PIN \in gpio2) <=> (Abs(n) % 2 = 1)
            /\ current_pos = PositionAfterToggles(Abs(n), n > 0)
            /\ n > 0 => DIRECTION_PIN \in gpio2
            /\ n < 0 => DIRECTION_PIN \notin gpio2

\* the controller has returned to Idle after a command and has nothing to
\* wait for: the radio's packet has been taken and both queues are empty
IdleAfterCommand ==
    /\ mpc = "idle"
    /\ command_idx > 0
    /\ rxcount > 0
    /\ comm_queue = <<>>
    /\ motion_queue = <<>>

\* C16: when the controller returns to Idle after a command, a pending entry
\* of the command sequence is executed as the next command: the controller
\* does not come to rest, with no packet left to arrive, before a pending SCAN
\* has taken its samples.
C16_PendingScanIsExecuted ==
    IdleAfterCommand => (command = "scan" => energyArray_idx = ENERGY_SAMPLES)

\* this step is one iteration of the revolution loop of SCAN
ScanLoopStep == mpc = "scan" /\ adc_sample_flag' = adc_sample_flag + 1
\* the step-pulse index of the next iteration of the revolution loop
PulseIndex == STEPS_FULL_REV - steps_todo

\* C17: a SCAN takes ENERGY_SAMPLES samples, one at each pulse index that is a
\* multiple of ADC_SAMPLE_PERIOD, into slots 0..ENERGY_SAMPLES-1 in this
\* order, starting from slot 0 again in every scan; nothing else writes the
\* buffer, and the write index never exceeds ENERGY_SAMPLES.
C17_ScanSamples ==
    /\ [](energyArray_idx <= ENERGY_SAMPLES)
    /\ [](mpc = "scan" => adc_sample_flag = PulseIndex)
    /\ [][(mpc = "dispatch" /\ mpc' = "scan") =>
             (energyArray_idx' = 0 /\ steps_todo' = STEPS_FULL_REV)]_vars
    /\ [][ScanLoopStep =>
             IF PulseIndex % ADC_SAMPLE_PERIOD = 0
             THEN /\ energyArray_idx = PulseIndex \div ADC_SAMPLE_PERIOD
                  /\ energyArray_idx' = energyArray_idx + 1
                  /\ energyArray' = [energyArray EXCEPT ![energyArray_idx] =
                                        ScanAdc(AdcWindow(sun, current_pos))]
             ELSE UNCHANGED <<energyArray, energyArray_idx>>]_vars
    /\ [][energyArray' # energyArray => ScanLoopStep]_vars
    /\ [][(mpc = "scan" /\ mpc' # "scan") =>
             (energyArray_idx = ENERGY_SAMPLES /\ PulseIndex = STEPS_FULL_REV)]_vars
    /\ [](\A i \in ENERGY_SAMPLES..(2 * ENERGY_SAMPLES - 1) : energyArray[i] = 0)

\* a scan after a scan: half of the buffer holds the new samples, the slot of
\* the last sample still holds the previous scan's
C17_Witness ==
    /\ mpc = "scan"
    /\ command_idx > 0
    /\ 2 * energyArray_idx = ENERGY_SAMPLES
    /\ energyArray[ENERGY_SAMPLES - 1] # 0

\* C18: a node with the master address turns no MOVE or SCAN packet into
\* motion: its motion queue stays empty, its motion controller stays Idle and
\* its position and step pins stay as initialised.
C18_MasterNeverMoves ==
    IsMaster =>
        /\ motion_queue = <<>>
        /\ mpc = "idle"
        /\ current_pos = 0
        /\ gpio2 = {}

\* C19: with a fairly scheduled motion task every dequeued SCAN or MOVE word
\* completes: the controller comes back to Idle with the busy flag false.
C19_CommandCompletes ==
    (mpc = "dispatch" /\ CMD_UNPACK(rx) \in {WIFI_CMD_SCAN, WIFI_CMD_MOVE})
        ~> (mpc = "idle" /\ busy_bit = 0)

\* the second command, a MOVE of -128 from position 199, has completed
C19_Witness ==
    /\ mpc = "idle"
    /\ busy_bit = 0
    /\ command_idx > 1
    /\ rx = PackMove(Packet(WIFI_MASTER_ADDR, 4, WIFI_CMD_MOVE, Pow2(7), 0, 0, 0))
    /\ current_pos = STEPS_PER_REV - 1

\* C20: the index with which the command-sequence array is read stays within
\* the array, after any number of processed Motion Command Words.
C20_SequenceIndexInArray ==
    (mpc = "chain" /\ busy_bit = 0) => command_idx \in 0..(COMMAND_SEQUENCE_LEN - 1)

====
